---------------------------- MODULE Spec2Model ----------------------------
(* A model of src/main.rs: the tracing pipeline built in main (OTLP batch   *)
(* exporter, ParentBased(TraceIdRatioBased) sampler, a registry with the    *)
(* global LevelFilter, the filtered fmt layer and the OpenTelemetry layer)  *)
(* and the two instrumented handlers, root and cause_error, polled as       *)
(* tasks on a pool of worker threads.                                       *)
EXTENDS Integers, Sequences, FiniteSets, TLC

\* ---------------------------------------------------------------- bounds
\* Requests served during one run of the process.
NumRequests == 2
\* Worker threads of the tokio runtime.
NumWorkers == 2
\* Capacity of the batch span processor's queue (scaled down).
MaxQueueSize == 2
\* Last reading of the wall clock.
MaxTime == 1
\* Width of a trace id in bits (scaled down).
TraceIdBits == 1
\* Sampling ratios are multiples of 1/RatioDen.
RatioDen == 2

\* ------------------------------------------------------------- constants
None == "none"

\* tracing_core::Level, as its numeric representation orders it.
Severity == [TRACE |-> 0, DEBUG |-> 1, INFO |-> 2, WARN |-> 3, ERROR |-> 4]
Levels == DOMAIN Severity

\* .with(LevelFilter::from_level(Level::INFO))
GlobalGate == "INFO"
\* fmt::layer().with_filter(LevelFilter::WARN); the OpenTelemetry layer is
\* added with no filter of its own, so it lets every level through.
Sinks == <<"stdout", "otel">>
SinkThreshold == [stdout |-> "WARN", otel |-> "TRACE"]
\* Sampler::TraceIdRatioBased(1.0), in units of 1/RatioDen.
SamplerRatio == RatioDen

Tasks == 1..NumRequests
Threads == 1..NumWorkers
Handlers == {"root", "cause_error"}
SpanKinds == {"handler", "some process", "fetch row"}
SpanIds == Tasks \X SpanKinds
TraceIds == 0..(2^TraceIdBits - 1)

VARIABLES
    mainPc,      \* where main is
    config,      \* the configuration main builds the pipeline from
    subscriber,  \* the global subscriber (gate, layers): empty until set
    initCount,   \* times the global subscriber was installed
    handler,     \* task -> the handler the router called for it
    pc,          \* task -> position in the handler's body
    dbResult,    \* task -> result of the query, once the database answered
    outcome,     \* task -> what the request ended with
    running,     \* thread -> the task it is polling, 0 when it is free
    stack,       \* thread -> the thread-local stack of entered spans
    spans,       \* span id -> the span's record
    emitted,     \* task -> the events its call sites produced
    recv,        \* sink -> task -> the events dispatched to the sink
    stderrLast,  \* last line on standard error, empty when none
    queue,       \* the batch span processor's buffer
    lastExport,  \* how the last export to the collector ended
    now          \* wall clock

vars == <<mainPc, config, subscriber, initCount, handler, pc, dbResult,
          outcome, running, stack, spans, emitted, recv, stderrLast, queue,
          lastExport, now>>

mainVars == <<mainPc, config, subscriber, initCount>>
taskVars == <<handler, pc, dbResult, outcome, running, stack>>
sinkVars == <<emitted, recv, stderrLast>>
exportVars == <<queue, lastExport>>

\* ------------------------------------------------------------------ Init
NoParent == <<>>

NoSpan == [state |-> "none", parent |-> NoParent, start |-> 0, end |-> 0,
           ends |-> 0, status |-> "unset", sampled |-> FALSE, recorded |-> 0]

\* The configuration written in main.
MainConfig == [gate |-> GlobalGate, thresholds |-> SinkThreshold,
               ratio |-> SamplerRatio]

InitRest ==
    /\ mainPc = "tracer_setup"
    /\ subscriber = <<>>
    /\ initCount = 0
    /\ handler = [t \in Tasks |-> None]
    /\ pc = [t \in Tasks |-> "idle"]
    /\ dbResult = [t \in Tasks |-> None]
    /\ outcome = [t \in Tasks |-> None]
    /\ running = [th \in Threads |-> 0]
    /\ stack = [th \in Threads |-> <<>>]
    /\ spans = [s \in SpanIds |-> NoSpan]
    /\ emitted = [t \in Tasks |-> <<>>]
    /\ recv = [k \in DOMAIN SinkThreshold |-> [t \in Tasks |-> <<>>]]
    /\ stderrLast = <<>>
    /\ queue = <<>>
    /\ lastExport = "none"
    /\ now = 0

Init ==
    /\ config = MainConfig
    /\ InitRest


\* ------------------------------------------------- the span stack (tracing)
Top(stk) == IF stk = <<>> THEN NoParent ELSE stk[Len(stk)]

\* Entering a span pushes it on the entering thread's stack.
PushSpan(stk, s) == Append(stk, s)

RECURSIVE LastIndexOf(_, _, _)
LastIndexOf(stk, s, i) ==
    IF i = 0 THEN 0
    ELSE IF stk[i] = s THEN i
    ELSE LastIndexOf(stk, s, i - 1)

\* Exiting a span leaves the stack as it is.
PopSpanKeeps(stk, s) == stk

\* Exiting a span removes its innermost entry from the stack.
PopSpan(stk, s) ==
    LET i == LastIndexOf(stk, s, Len(stk))
    IN  IF i = 0 THEN stk
        ELSE SubSeq(stk, 1, i - 1) \o SubSeq(stk, i + 1, Len(stk))

\* The parent of a span made by info_span! or #[instrument]: the span that
\* is current on the calling thread.
ContextualParent(th) == Top(stack[th])

\* ------------------------------------------------------------ the sampler
\* Sampler::TraceIdRatioBased(ratio): decided by the trace id alone.
TraceIdRatioBased(ratio, traceId) ==
    \/ ratio >= RatioDen
    \/ traceId * RatioDen < ratio * (2^TraceIdBits)

\* Every span asks the ratio sampler with the id drawn for it.
SampledPerSpan(ratio, parent, traceId) == TraceIdRatioBased(ratio, traceId)

\* Sampler::ParentBased(root): a span with a parent takes the parent's
\* decision, a trace root asks the root sampler.
ParentBased(ratio, parent, traceId) ==
    IF parent = NoParent THEN TraceIdRatioBased(ratio, traceId)
    ELSE spans[parent].sampled

\* The record of a span made now under `parent`.
NewSpan(parent, traceId) ==
    [state |-> "open", parent |-> parent, start |-> now, end |-> 0,
     ends |-> 0, status |-> "unset",
     sampled |-> ParentBased(config.ratio, parent, traceId), recorded |-> 0]

\* ---------------------------------------------- the batch span processor
\* on_end always appends.
OnEndUnbounded(q, s) == Append(q, s)

\* install_batch: on_end offers the finished span to the bounded queue and
\* never waits; a span that finds the queue full is dropped.
OnEnd(q, s) == IF Len(q) < MaxQueueSize THEN Append(q, s) ELSE q

\* Dropping the last handle of a span closes it: the end time is taken and
\* a sampled span is handed to the span processor.
CloseSpan(ex, s) ==
    LET sp == ex.spans[s]
        done == [sp EXCEPT !.state = "closed", !.end = now, !.ends = @ + 1,
                           !.recorded = IF sp.sampled THEN @ + 1 ELSE @]
    IN  [spans |-> [ex.spans EXCEPT ![s] = done],
         queue |-> IF sp.sampled THEN OnEnd(ex.queue, s) ELSE ex.queue]

RECURSIVE CloseSeq(_, _)
CloseSeq(ex, ss) ==
    IF ss = <<>> THEN ex
    ELSE CloseSeq(CloseSpan(ex, Head(ss)), Tail(ss))

Exporting == [spans |-> spans, queue |-> queue]

\* Only the handler's own span is closed with the future.
LiveSpansOuterOnly(t) ==
    IF spans[<<t, "handler">>].state = "open"
    THEN <<(<<t, "handler">>)>> ELSE <<>>

\* Every span the handler ever made is closed with the future.
LiveSpansEverMade(t) ==
    (IF spans[<<t, "fetch row">>].state # "none"
        THEN <<(<<t, "fetch row">>)>> ELSE <<>>)
    \o (IF spans[<<t, "handler">>].state # "none"
        THEN <<(<<t, "handler">>)>> ELSE <<>>)

\* The spans a handler's future still owns, innermost first: the span of
\* the Instrumented query while it is awaited, and the handler's own span.
LiveSpans(t) ==
    (IF spans[<<t, "fetch row">>].state = "open"
        THEN <<(<<t, "fetch row">>)>> ELSE <<>>)
    \o (IF spans[<<t, "handler">>].state = "open"
        THEN <<(<<t, "handler">>)>> ELSE <<>>)

\* ------------------------------------------------------ the sink chain
\* The installed global subscriber.
Subscriber == subscriber[1]

\* Only the sink's own filter is asked.
SinkEnabledNoGate(sub, k, level) ==
    Severity[level] >= Severity[sub.thresholds[k]]

\* An event passes the global LevelFilter and then the sink's own filter.
SinkEnabled(sub, k, level) ==
    /\ Severity[level] >= Severity[sub.gate]
    /\ Severity[level] >= Severity[sub.thresholds[k]]

\* The first failure ends the dispatch.
DispatchStopsOnFailure(sub, k, level, failed) ==
    /\ failed = {}
    /\ Severity[level] >= Severity[sub.gate]
    /\ Severity[level] >= Severity[sub.thresholds[k]]

\* The layers run one after the other, and a layer's handling has no
\* result: `failed`, the sinks whose handling of the event failed, is not
\* consulted.
DispatchTo(sub, k, level, failed) == SinkEnabled(sub, k, level)

\* Position of a sink in the chain.
SinkIndex(k) == CHOOSE i \in DOMAIN Sinks : Sinks[i] = k
SinksBefore(k) == {Sinks[i] : i \in 1..(SinkIndex(k) - 1)}

\* A failure inside a sink is unwrapped at the call site.
AfterEmitUnwraps(next, failed) == IF failed = {} THEN next ELSE "expect"

\* The macros are statements: whatever happened inside the sinks, the
\* handler goes on with its next statement.
AfterEmit(next, failed) == next

\* The OpenTelemetry layer marks the span an ERROR event belongs to.
EventStatus(sp, ev, th) ==
    [s \in SpanIds |->
        IF /\ s = ev.span
           /\ ev.level = "ERROR"
           /\ sp[s].status = "unset"
           /\ DispatchTo(Subscriber, "otel", ev.level, {})
        THEN [sp[s] EXCEPT !.status = "error"] ELSE sp[s]]

\* The sinks whose handling of an event fails: `fail` says that the write
\* to standard output does.
Failed(level, fail) ==
    IF fail /\ SinkEnabled(Subscriber, "stdout", level) THEN {"stdout"} ELSE {}

\* One event at a call site of task t on thread th: every layer is offered
\* the event in chain order; a failed write is reported on standard error.
Emit(t, th, level, msg, fail) ==
    LET ev == [level |-> level, msg |-> msg, span |-> ContextualParent(th)]
        failed == Failed(level, fail)
    IN  /\ emitted' = [emitted EXCEPT ![t] = Append(@, ev)]
        /\ recv' = [k \in DOMAIN SinkThreshold |->
                      IF DispatchTo(Subscriber, k, level,
                                    failed \cap SinksBefore(k))
                      THEN [recv[k] EXCEPT ![t] = Append(@, ev)]
                      ELSE recv[k]]
        /\ stderrLast' = IF failed = {} THEN stderrLast
                         ELSE <<[task |-> t, msg |-> msg]>>
        /\ spans' = EventStatus(spans, ev, th)

\* ------------------------------------------------------------------ main
\* main ends: the process exits, and its tasks, spans and subscriber go
\* with it. Nothing in main shuts the tracer provider down or flushes it:
\* what the queue holds at that moment was never sent.
ExitProcess ==
    /\ mainPc' = "exited"
    /\ queue' = queue
    /\ lastExport' = lastExport
    /\ config' = config
    /\ subscriber' = <<>>
    /\ initCount' = initCount
    /\ handler' = [t \in Tasks |-> None]
    /\ pc' = [t \in Tasks |-> "idle"]
    /\ dbResult' = [t \in Tasks |-> None]
    /\ outcome' = [t \in Tasks |-> None]
    /\ running' = [th \in Threads |-> 0]
    /\ stack' = [th \in Threads |-> <<>>]
    /\ spans' = [s \in SpanIds |-> NoSpan]
    /\ emitted' = [t \in Tasks |-> <<>>]
    /\ recv' = [k \in DOMAIN SinkThreshold |-> [t \in Tasks |-> <<>>]]
    /\ stderrLast' = <<>>
    /\ now' = now

\* new_pipeline().tracing()...install_batch(Tokio).unwrap()
InstallBatch(ok) ==
    /\ mainPc = "tracer_setup"
    /\ IF ok
       THEN /\ mainPc' = "subscriber_init"
            /\ UNCHANGED <<config, subscriber, initCount>>
            /\ UNCHANGED <<taskVars, spans, sinkVars, exportVars, now>>
       ELSE ExitProcess

\* tracing_subscriber::registry().with(..).with(..).with(..).init()
InitSubscriber ==
    /\ mainPc = "subscriber_init"
    /\ mainPc' = "db_setup"
    /\ subscriber' = <<[gate |-> config.gate,
                       thresholds |-> config.thresholds]>>
    /\ initCount' = initCount + 1
    /\ UNCHANGED <<config, taskVars, spans, sinkVars, exportVars, now>>

\* MySqlPoolOptions::new().connect_with(options).await.expect(..)
ConnectDb(ok) ==
    /\ mainPc = "db_setup"
    /\ IF ok
       THEN /\ mainPc' = "bind"
            /\ UNCHANGED <<config, subscriber, initCount>>
            /\ UNCHANGED <<taskVars, spans, sinkVars, exportVars, now>>
       ELSE ExitProcess

\* TcpListener::bind("0.0.0.0:3000").await.unwrap()
Bind(ok) ==
    /\ mainPc = "bind"
    /\ IF ok
       THEN /\ mainPc' = "serving"
            /\ UNCHANGED <<config, subscriber, initCount>>
            /\ UNCHANGED <<taskVars, spans, sinkVars, exportVars, now>>
       ELSE ExitProcess

\* axum::serve(listener, app).await.unwrap(): serve comes back with an error.
ServeFails ==
    /\ mainPc = "serving"
    /\ ExitProcess

\* ---------------------------------------------------------- the handlers
Serving == mainPc = "serving"
ThreadOf(t) == CHOOSE th \in Threads : running[th] = t
Running(t) == \E th \in Threads : running[th] = t
Idle(th) == running[th] = 0
Handler(t) == <<t, "handler">>
Fetch(t) == <<t, "fetch row">>
SomeProcess(t) == <<t, "some process">>

\* The connection of request t is served on thread th: the HTTP library
\* logs below INFO, outside any span of the handlers, first at TRACE ...
H2Trace(t, th) ==
    /\ Serving
    /\ pc[t] = "idle"
    /\ Idle(th)
    /\ Emit(t, th, "TRACE", "h2 frame", FALSE)
    /\ pc' = [pc EXCEPT ![t] = "accepting"]
    /\ UNCHANGED <<mainVars, handler, dbResult, outcome, running, stack,
                   exportVars, now>>

\* ... and then at DEBUG.
H2Debug(t, th) ==
    /\ Serving
    /\ pc[t] = "accepting"
    /\ Idle(th)
    /\ Emit(t, th, "DEBUG", "h2 connection", FALSE)
    /\ pc' = [pc EXCEPT ![t] = "accepted"]
    /\ UNCHANGED <<mainVars, handler, dbResult, outcome, running, stack,
                   exportVars, now>>

\* The router calls handler h on thread th: #[tracing::instrument] makes
\* the handler's span and the first poll of the body enters it.
StartRequest(t, h, th, traceId) ==
    /\ Serving
    /\ pc[t] = "accepted"
    /\ Idle(th)
    /\ handler' = [handler EXCEPT ![t] = h]
    /\ spans' = [spans EXCEPT
                   ![Handler(t)] = NewSpan(ContextualParent(th), traceId)]
    /\ running' = [running EXCEPT ![th] = t]
    /\ stack' = [stack EXCEPT ![th] = PushSpan(@, Handler(t))]
    /\ pc' = [pc EXCEPT ![t] = "info"]
    /\ UNCHANGED <<mainVars, dbResult, outcome, sinkVars, exportVars, now>>

\* tracing::info!("Processing request")
EmitInfo(t, fail) ==
    /\ Serving
    /\ pc[t] = "info"
    /\ Emit(t, ThreadOf(t), "INFO", "Processing request", fail)
    /\ pc' = [pc EXCEPT ![t] = AfterEmit(
                 IF handler[t] = "root" THEN "some_span" ELSE "warn",
                 Failed("INFO", fail))]
    /\ UNCHANGED <<mainVars, handler, dbResult, outcome, running, stack,
                   exportVars, now>>

\* tracing::warn!("possible error")
EmitWarn(t, fail) ==
    /\ Serving
    /\ pc[t] = "warn"
    /\ Emit(t, ThreadOf(t), "WARN", "possible error", fail)
    /\ pc' = [pc EXCEPT ![t] = AfterEmit("fetch_span", Failed("WARN", fail))]
    /\ UNCHANGED <<mainVars, handler, dbResult, outcome, running, stack,
                   exportVars, now>>

\* tracing::info_span!("some process").in_scope(|| ..): the span is made
\* and entered, and the closure starts.
EnterSomeProcess(t, traceId) ==
    /\ Serving
    /\ pc[t] = "some_span"
    /\ LET th == ThreadOf(t)
       IN  /\ spans' = [spans EXCEPT ![SomeProcess(t)] =
                           NewSpan(ContextualParent(th), traceId)]
           /\ stack' = [stack EXCEPT ![th] = PushSpan(@, SomeProcess(t))]
    /\ pc' = [pc EXCEPT ![t] = "hashing"]
    /\ UNCHANGED <<mainVars, handler, dbResult, outcome, running, sinkVars,
                   exportVars, now>>

\* bcrypt::hash returns: in_scope exits the span, and the statement ends,
\* which drops the span.
LeaveSomeProcess(t) ==
    /\ Serving
    /\ pc[t] = "hashing"
    /\ LET th == ThreadOf(t)
           ex == CloseSpan(Exporting, SomeProcess(t))
       IN  /\ stack' = [stack EXCEPT ![th] = PopSpan(@, SomeProcess(t))]
           /\ spans' = ex.spans
           /\ queue' = ex.queue
    /\ pc' = [pc EXCEPT ![t] = "fetch_span"]
    /\ UNCHANGED <<mainVars, handler, dbResult, outcome, running, sinkVars,
                   lastExport, now>>

\* sqlx::query(..).fetch_one(&pool).instrument(info_span!("fetch row")):
\* the span is made, and the first poll of the query enters it.
StartFetch(t, traceId) ==
    /\ Serving
    /\ pc[t] = "fetch_span"
    /\ LET th == ThreadOf(t)
       IN  /\ spans' = [spans EXCEPT ![Fetch(t)] =
                           NewSpan(ContextualParent(th), traceId)]
           /\ stack' = [stack EXCEPT ![th] = PushSpan(@, Fetch(t))]
    /\ pc' = [pc EXCEPT ![t] = "polling"]
    /\ UNCHANGED <<mainVars, handler, dbResult, outcome, running, sinkVars,
                   exportVars, now>>

\* .await with the query pending: the poll returns, which exits the span of
\* the query and the span of the handler, and the thread is free.
Suspend(t) ==
    /\ Serving
    /\ pc[t] = "polling"
    /\ dbResult[t] = None
    /\ LET th == ThreadOf(t)
       IN  /\ stack' = [stack EXCEPT ![th] =
                           PopSpan(PopSpan(@, Fetch(t)), Handler(t))]
           /\ running' = [running EXCEPT ![th] = 0]
    /\ pc' = [pc EXCEPT ![t] = "awaiting"]
    /\ UNCHANGED <<mainVars, handler, dbResult, outcome, spans, sinkVars,
                   exportVars, now>>

\* The database answers the query of task t.
DbRespond(t, r) ==
    /\ Serving
    /\ pc[t] \in {"polling", "awaiting"}
    /\ dbResult[t] = None
    /\ dbResult' = [dbResult EXCEPT ![t] = r]
    /\ UNCHANGED <<mainVars, handler, pc, outcome, running, stack, spans,
                   sinkVars, exportVars, now>>

\* The runtime polls the task again, on any free thread: the poll enters
\* the handler's span and then the span of the query.
Resume(t, th) ==
    /\ Serving
    /\ pc[t] = "awaiting"
    /\ Idle(th)
    /\ running' = [running EXCEPT ![th] = t]
    /\ stack' = [stack EXCEPT ![th] =
                    PushSpan(PushSpan(@, Handler(t)), Fetch(t))]
    /\ pc' = [pc EXCEPT ![t] = "polling"]
    /\ UNCHANGED <<mainVars, handler, dbResult, outcome, spans, sinkVars,
                   exportVars, now>>

\* The query is done: the poll of the Instrumented future exits its span
\* and .await drops the future, which closes the span.
FetchReady(t) ==
    /\ Serving
    /\ pc[t] = "polling"
    /\ dbResult[t] # None
    /\ LET th == ThreadOf(t)
           ex == CloseSpan(Exporting, Fetch(t))
       IN  /\ stack' = [stack EXCEPT ![th] = PopSpan(@, Fetch(t))]
           /\ spans' = ex.spans
           /\ queue' = ex.queue
    /\ pc' = [pc EXCEPT ![t] = IF handler[t] = "root" THEN "expect"
                               ELSE "match"]
    /\ UNCHANGED <<mainVars, handler, dbResult, outcome, running, sinkVars,
                   lastExport, now>>

\* The handler's future is dropped (it returned, it panicked or the request
\* went away): the spans it still owns close, innermost first.
DropFuture(t) == CloseSeq(Exporting, LiveSpans(t))

\* The task is over with outcome o, on thread th when it was being polled.
Finish(t, o) ==
    /\ LET ex == DropFuture(t)
       IN  /\ spans' = ex.spans
           /\ queue' = ex.queue
    /\ outcome' = [outcome EXCEPT ![t] = o]
    /\ pc' = [pc EXCEPT ![t] = "done"]

\* root: .expect("Failed to fetch row") panics on Err; the unwinding leaves
\* the handler's span and drops the future.
Expect(t) ==
    /\ Serving
    /\ pc[t] = "expect"
    /\ IF dbResult[t] = "ok"
       THEN /\ pc' = [pc EXCEPT ![t] = "ret"]
            /\ UNCHANGED <<outcome, running, stack, spans, queue>>
       ELSE /\ Finish(t, "panic")
            /\ stack' = [stack EXCEPT ![ThreadOf(t)] = PopSpan(@, Handler(t))]
            /\ running' = [running EXCEPT ![ThreadOf(t)] = 0]
    /\ UNCHANGED <<mainVars, handler, dbResult, sinkVars, lastExport, now>>

\* Both arms of the match emit.
MatchEmitsAlways(r) == TRUE

\* cause_error: match rs { Ok(_) => (), Err(e) => tracing::error!(..) }
MatchEmitsError(r) == r = "err"

Match(t, fail) ==
    /\ Serving
    /\ pc[t] = "match"
    /\ IF MatchEmitsError(dbResult[t])
       THEN /\ Emit(t, ThreadOf(t), "ERROR", "Error", fail)
            /\ pc' = [pc EXCEPT ![t] =
                         AfterEmit("ret", Failed("ERROR", fail))]
       ELSE /\ pc' = [pc EXCEPT ![t] = "ret"]
            /\ UNCHANGED <<spans, sinkVars>>
    /\ UNCHANGED <<mainVars, handler, dbResult, outcome, running, stack,
                   exportVars, now>>

\* "ok": the body returns, the last poll exits the handler's span and the
\* finished future is dropped.
Return(t) ==
    /\ Serving
    /\ pc[t] = "ret"
    /\ Finish(t, "ok")
    /\ stack' = [stack EXCEPT ![ThreadOf(t)] = PopSpan(@, Handler(t))]
    /\ running' = [running EXCEPT ![ThreadOf(t)] = 0]
    /\ UNCHANGED <<mainVars, handler, dbResult, sinkVars, lastExport, now>>

\* The request goes away while its handler is suspended at the .await: the
\* server drops the handler's future.
Abort(t) ==
    /\ Serving
    /\ pc[t] = "awaiting"
    /\ Finish(t, "aborted")
    /\ UNCHANGED <<mainVars, handler, dbResult, running, stack, sinkVars,
                   lastExport, now>>

\* ------------------------------------------------- the background export
\* The batch processor's task takes what the queue holds and sends it to
\* the collector; a batch whose export fails is reported and gone, it is
\* not put back.
Flush(ok) ==
    /\ mainPc \notin {"tracer_setup", "exited"}
    /\ queue # <<>>
    /\ queue' = <<>>
    /\ lastExport' = IF ok THEN "ok" ELSE "failed"
    /\ UNCHANGED <<mainVars, taskVars, spans, sinkVars, now>>

\* Time passes.
Tick ==
    /\ Serving
    /\ now < MaxTime
    /\ now' = now + 1
    /\ UNCHANGED <<mainVars, taskVars, spans, sinkVars, exportVars>>

\* ------------------------------------------------------------------ Next
MainStep ==
    \/ \E ok \in BOOLEAN : InstallBatch(ok)
    \/ InitSubscriber
    \/ \E ok \in BOOLEAN : ConnectDb(ok)
    \/ \E ok \in BOOLEAN : Bind(ok)
    \/ ServeFails

TaskStep(t) ==
    \/ \E th \in Threads : H2Trace(t, th)
    \/ \E th \in Threads : H2Debug(t, th)
    \/ \E h \in Handlers, th \in Threads, id \in TraceIds :
          StartRequest(t, h, th, id)
    \/ \E fail \in BOOLEAN : EmitInfo(t, fail)
    \/ \E fail \in BOOLEAN : EmitWarn(t, fail)
    \/ \E id \in TraceIds : EnterSomeProcess(t, id)
    \/ LeaveSomeProcess(t)
    \/ \E id \in TraceIds : StartFetch(t, id)
    \/ Suspend(t)
    \/ \E th \in Threads : Resume(t, th)
    \/ FetchReady(t)
    \/ Expect(t)
    \/ \E fail \in BOOLEAN : Match(t, fail)
    \/ Return(t)

EnvStep(t) ==
    \/ \E r \in {"ok", "err"} : DbRespond(t, r)
    \/ Abort(t)

Next ==
    \/ MainStep
    \/ \E t \in Tasks : TaskStep(t)
    \/ \E t \in Tasks : EnvStep(t)
    \/ \E ok \in BOOLEAN : Flush(ok)

\* The program with the clock standing still.
Spec == Init /\ [][Next]_vars

\* The program with time passing.
TimedNext ==
    \/ Next
    \/ Tick

TimedSpec == Init /\ [][TimedNext]_vars

\* The program built with any sampling ratio in place of 1.0.
SamplerInit ==
    /\ config \in {[MainConfig EXCEPT !.ratio = r] : r \in 0..RatioDen}
    /\ InitRest

SamplerSpec == SamplerInit /\ [][Next]_vars

\* The runtime polls every task that can go on: a task that is being
\* polled takes its next step, and a suspended task gets a free thread
\* again and again. Requests, the database's answers, aborts and the end
\* of the process are up to the environment.
Progress(t) ==
    \/ \E fail \in BOOLEAN : EmitInfo(t, fail)
    \/ \E fail \in BOOLEAN : EmitWarn(t, fail)
    \/ \E id \in TraceIds : EnterSomeProcess(t, id)
    \/ LeaveSomeProcess(t)
    \/ \E id \in TraceIds : StartFetch(t, id)
    \/ Suspend(t)
    \/ FetchReady(t)
    \/ Expect(t)
    \/ \E fail \in BOOLEAN : Match(t, fail)
    \/ Return(t)

Fairness ==
    \A t \in Tasks :
        /\ WF_vars(Progress(t))
        /\ SF_vars(\E th \in Threads : Resume(t, th))

FairSpec == Spec /\ Fairness

\* ---------------------------------------------------------------- claims
Min(a, b) == IF a < b THEN a ELSE b
SeqToSet(q) == {q[i] : i \in DOMAIN q}
Started(s) == spans[s].state # "none"
Open(s) == spans[s].state = "open"
Closed(s) == spans[s].state = "closed"
Msgs(evs) == {evs[i].msg : i \in DOMAIN evs}
AtLeast(e, level) == Severity[e.level] >= Severity[level]
IsInfoUp(e) == AtLeast(e, "INFO")
IsWarnUp(e) == AtLeast(e, "INFO") /\ AtLeast(e, "WARN")
IsError(e) == e.level = "ERROR"
Returned(t) == pc[t] = "ret" \/ (pc[t] = "done" /\ outcome[t] = "ok")

\* C1: a sink receives an event iff the event's severity is at least the
\* global gate (INFO) and at least the sink's own threshold: standard
\* output (WARN) receives exactly the WARN and ERROR events of every task,
\* in order, the OpenTelemetry layer (no filter of its own) exactly the
\* INFO, WARN and ERROR events; events below INFO reach no sink.
C1_SinkReceivesIffGateAndThreshold ==
    \A t \in Tasks :
        /\ recv["stdout"][t] = SelectSeq(emitted[t], IsWarnUp)
        /\ recv["otel"][t] = SelectSeq(emitted[t], IsInfoUp)

\* cause_error has emitted below INFO (the HTTP library), INFO and WARN:
\* standard output holds the WARN event alone, OpenTelemetry both.
C1_Witness ==
    \E t \in Tasks :
        /\ handler[t] = "cause_error"
        /\ Msgs(emitted[t]) = {"h2 frame", "h2 connection",
                              "Processing request", "possible error"}
        /\ Msgs(recv["stdout"][t]) = {"possible error"}
        /\ Msgs(recv["otel"][t]) = {"Processing request", "possible error"}

\* The innermost span of task t that is open.
InnermostOpen(t) ==
    IF Open(SomeProcess(t)) THEN SomeProcess(t)
    ELSE IF Open(Fetch(t)) THEN Fetch(t)
    ELSE IF Open(Handler(t)) THEN Handler(t)
    ELSE NoParent

\* C2: whenever a span starts, its parent is the innermost span of its own
\* task that is still open at that moment (none for the handler's span, the
\* handler's span for "some process" and for "fetch row"), whatever the
\* other tasks and the threads did in between.
C2_ParentIsInnermostOpenOfTask ==
    [][\A s \in SpanIds :
          (~Started(s) /\ spans'[s].state = "open")
              => spans'[s].parent = InnermostOpen(s[1])]_vars

\* root awaits the query with "fetch row" open under the request's own
\* span, "some process" already closed, while the other request is being
\* polled inside its own open span.
C2_Witness ==
    \E t \in Tasks, u \in Tasks :
        /\ t # u
        /\ handler[t] = "root"
        /\ Closed(SomeProcess(t))
        /\ spans[SomeProcess(t)].parent = Handler(t)
        /\ Open(Fetch(t))
        /\ spans[Fetch(t)].parent = Handler(t)
        /\ pc[t] = "awaiting"
        /\ Running(u)
        /\ Open(Handler(u))
        /\ spans[Handler(u)].parent = NoParent

\* The work a span wraps has started and has not finished.
InProgress(s) ==
    LET t == s[1]
    IN  CASE s[2] = "some process" -> pc[t] = "hashing"
          [] s[2] = "fetch row" -> pc[t] \in {"polling", "awaiting"}
          [] OTHER -> pc[t] \notin {"idle", "accepting", "accepted", "done"}

\* C3 (the state part): a span is open exactly while the work it wraps is
\* in progress, suspended at the await or not.
C3_OpenWhileInProgress == \A s \in SpanIds : Open(s) <=> InProgress(s)

\* C3: a span is open exactly while its work is in progress, and once the
\* work is bound to end (bcrypt is hashing, the database has answered) the
\* spans around it are closed eventually, whichever way the handler ends.
C3_SpanBracketsWork ==
    /\ []C3_OpenWhileInProgress
    /\ \A t \in Tasks :
          /\ Open(SomeProcess(t)) ~> ~Open(SomeProcess(t))
          /\ (dbResult[t] # None) ~> (~Open(Fetch(t)) /\ ~Open(Handler(t)))

\* One request is suspended at the await, its span open and entered on no
\* thread; the other has panicked in root's expect and owns no open span.
C3_Witness ==
    \E t \in Tasks, u \in Tasks :
        /\ pc[t] = "awaiting"
        /\ Open(Fetch(t))
        /\ \A th \in Threads : stack[th] = <<>>
        /\ outcome[u] = "panic"
        /\ Closed(Handler(u)) /\ Closed(Fetch(u)) /\ Closed(SomeProcess(u))

\* C4: the end of a span is taken exactly once and is not before its
\* start, and no span is handed to the exporter more than once.
C4_EndOnceAndRecordedOnce ==
    /\ \A s \in SpanIds :
          /\ spans[s].ends = (IF Closed(s) THEN 1 ELSE 0)
          /\ spans[s].recorded <= 1
          /\ Closed(s) => spans[s].end >= spans[s].start
    /\ \A i \in DOMAIN queue, j \in DOMAIN queue :
          queue[i] = queue[j] => i = j

\* An aborted request: both its spans were closed by the drop of the
\* future, after time had passed, and each was recorded once.
C4_Witness ==
    \E t \in Tasks :
        /\ outcome[t] = "aborted"
        /\ Closed(Fetch(t)) /\ Closed(Handler(t))
        /\ spans[Fetch(t)].end > spans[Fetch(t)].start
        /\ spans[Handler(t)].recorded = 1
        /\ spans[Fetch(t)].recorded = 1

\* C5 as stated: after the failed query of cause_error, "fetch row" is
\* closed with status error and one ERROR event is emitted.
C5_FetchSpanHasErrorStatus ==
    \A t \in Tasks :
        (handler[t] = "cause_error" /\ Returned(t) /\ dbResult[t] = "err")
            => /\ Closed(Fetch(t))
               /\ spans[Fetch(t)].status = "error"
               /\ Len(SelectSeq(emitted[t], IsError)) = 1

\* C5, amended: after the failed query "fetch row" is closed with its
\* status left unset, and exactly one ERROR event is emitted, inside the
\* handler's own span and to both sinks; after a successful query there is
\* no ERROR event and no span of the request has status error.
C5_ErrorEventInHandlerSpan ==
    \A t \in Tasks :
        /\ spans[Fetch(t)].status = "unset"
        /\ (handler[t] = "cause_error" /\ Returned(t))
              => /\ Closed(Fetch(t))
                 /\ IF dbResult[t] = "err"
                    THEN /\ Len(SelectSeq(emitted[t], IsError)) = 1
                         /\ \A i \in DOMAIN emitted[t] :
                               IsError(emitted[t][i])
                                  => emitted[t][i].span = Handler(t)
                         /\ Len(SelectSeq(recv["stdout"][t], IsError)) = 1
                         /\ Len(SelectSeq(recv["otel"][t], IsError)) = 1
                    ELSE /\ SelectSeq(emitted[t], IsError) = <<>>
                         /\ \A k \in SpanKinds :
                               spans[<<t, k>>].status # "error"

\* cause_error has returned after a failed query.
C5_Witness ==
    \E t \in Tasks :
        /\ handler[t] = "cause_error"
        /\ outcome[t] = "ok"
        /\ dbResult[t] = "err"
        /\ Len(SelectSeq(emitted[t], IsError)) = 1
        /\ Closed(Fetch(t))

\* What the request ends with, from the handler and the database alone.
BusinessOutcome(h, r) == IF h = "root" /\ r = "err" THEN "panic" ELSE "ok"

RECURSIVE RootOf(_)
RootOf(s) == IF spans[s].parent = NoParent THEN s ELSE RootOf(spans[s].parent)

\* C8: every span carries the sampling decision of the root of its trace;
\* with ratio 1.0 every span is sampled and every finished span is handed
\* to the exporter, with ratio 0.0 none is.
C8_SamplingDecidedAtRoot ==
    /\ \A s \in SpanIds :
          Started(s) => spans[s].sampled = spans[RootOf(s)].sampled
    /\ config.ratio = RatioDen
          => \A s \in SpanIds :
                /\ Started(s) => spans[s].sampled
                /\ Closed(s) => spans[s].recorded = 1
    /\ config.ratio = 0
          => /\ \A s \in SpanIds : ~spans[s].sampled /\ spans[s].recorded = 0
             /\ queue = <<>>

\* With a ratio between 0 and 1, one trace is dropped as a whole and the
\* other is exported as a whole.
C8_Witness ==
    \E t \in Tasks, u \in Tasks :
        /\ config.ratio \notin {0, RatioDen}
        /\ handler[t] = "root" /\ outcome[t] = "ok"
        /\ \A k \in SpanKinds : spans[<<t, k>>].recorded = 0
        /\ handler[u] = "root" /\ outcome[u] = "ok"
        /\ \A k \in SpanKinds : spans[<<u, k>>].recorded = 1

\* The sampled spans a step closes.
Closing == {s \in SpanIds : Open(s) /\ spans'[s].state = "closed"
                            /\ spans[s].sampled}

\* C9: the exporter's queue never holds more than its bound; a handler
\* that is to close a span can always do so, the queue full or not; a
\* closing span is queued when there is room and dropped when there is
\* none; and an export, failed or not, takes its batch off the queue for
\* good: nothing is kept for a retry.
C9_QueueBoundedAndNonBlocking ==
    /\ [](Len(queue) <= MaxQueueSize)
    /\ [](\A t \in Tasks :
            /\ pc[t] = "hashing" => ENABLED LeaveSomeProcess(t)
            /\ (pc[t] = "polling" /\ dbResult[t] # None)
                  => ENABLED FetchReady(t)
            /\ pc[t] = "ret" => ENABLED Return(t)
            /\ pc[t] = "awaiting" => ENABLED Abort(t))
    /\ [][/\ Closing # {}
             => /\ Len(queue') = Min(Len(queue) + Cardinality(Closing),
                                     MaxQueueSize)
                /\ SubSeq(queue', 1, Len(queue)) = queue
                /\ SeqToSet(queue') \subseteq SeqToSet(queue) \cup Closing
          /\ (Closing = {} /\ queue' # queue)
             => /\ queue' = <<>>
                /\ lastExport' \in {"ok", "failed"}]_vars

\* The queue is full, and a sampled span that was closed before any export
\* ran is not in it: it was dropped.
C9_Witness ==
    /\ Len(queue) = MaxQueueSize
    /\ lastExport = "none"
    /\ \E s \in SpanIds :
          /\ Closed(s)
          /\ spans[s].recorded = 1
          /\ s \notin SeqToSet(queue)

\* C10: the global subscriber is installed once, before any handler
\* emits, and when the process has ended every span the exporter's queue
\* had accepted was sent, or its sending was tried.
C10_InitOnceAndFlushedAtExit ==
    /\ initCount <= 1
    /\ \A t \in Tasks : emitted[t] # <<>> => initCount = 1
    /\ mainPc = "exited" => queue = <<>>
=============================================================================
